---- MODULE Spec2Model ----
(***************************************************************************)
(* A model of the cloud datastore adapter of luci/gae                      *)
(* (impl/cloud/datastore.go): the key codec, the property codec, the error *)
(* normaliser, the batch operations, the query iteration and the           *)
(* transaction retry loop.                                                 *)
(*                                                                         *)
(* Go pointers are modelled as sequences of length at most one: <<>> is    *)
(* nil and <<x>> points at x.  Go errors are strings, "nil" is no error.   *)
(***************************************************************************)
EXTENDS Integers, Sequences, FiniteSets, TLC

VARIABLES bds, codec, txn, batch, run

vars == <<bds, codec, txn, batch, run>>

\* ------------------------------------------------------------------ bounds
MaxToks == 2
MaxIntID == 2
MaxProps == 2
MaxOptAttempts == 3
MaxKeys == 3
MaxMatching == 4
MaxLimit == 3

\* ------------------------------------------------------------- value sets
Apps == {"app", "other"}
Namespaces == {"", "ns"}
Kinds == {"P", "C"}
StringIDs == {"", "s"}

NoErr == "nil"

SeqsUpTo(S, n) == UNION {[1..m -> S] : m \in 0..n}

\* ------------------------------------------------------- scope and errors
\* A context.Context as far as the adapter reads it: the application id and
\* the namespace of the info service, and the value stored under
\* datastoreTransactionKey (a pointer to a transaction handle).
withDatastoreTransaction(c, tx) == [c EXCEPT !.tx = tx]

datastoreTransaction(c) == c.tx

\* The factory installed by cloudDatastore.use: a boundDatastore embeds the
\* context it was made from.
use(ic, wantTxn) ==
    [Context |-> ic,
     appID |-> ic.appID,
     transaction |-> IF wantTxn THEN datastoreTransaction(ic) ELSE <<>>]

normalizeError(err) ==
    CASE err = "datastore.ErrNoSuchEntity" -> "ds.ErrNoSuchEntity"
      [] err = "datastore.ErrConcurrentTransaction" -> "ds.ErrConcurrentTransaction"
      [] err = "datastore.ErrInvalidKey" -> "ds.ErrInvalidKey"
      [] OTHER -> err

\* ------------------------------------------------------------ abstract key
KeyTok == [Kind : Kinds, StringID : StringIDs, IntID : 0..MaxIntID]

\* ds.NewKeyToks: an abstract key is (appID, namespace, tokens root to leaf).
NewKeyToks(appID, namespace, toks) ==
    [appID |-> appID, namespace |-> namespace, toks |-> toks]

\* ds.Key.Split
KeySplit(key) == <<key.appID, key.namespace, key.toks>>

\* ds.Key.Incomplete: the leaf token has neither a string nor an integer id.
KeyIncomplete(key) ==
    LET last == key.toks[Len(key.toks)]
    IN  last.StringID = "" /\ last.IntID = 0

DSKeys ==
    {NewKeyToks(a, n, t) : a \in Apps, n \in Namespaces,
                           t \in SeqsUpTo(KeyTok, MaxToks) \ {<<>>}}

CompleteKeys == {k \in DSKeys : ~KeyIncomplete(k)}

\* -------------------------------------------------------------- key codec
\* datastore.NewKey(ctx, kind, name, id, parent): the namespace is the one
\* of the context, which for bds is the namespace of the scope (line 30).
NewKey(b, kind, name, id, parent) ==
    [kind |-> kind, name |-> name, id |-> id, parent |-> parent,
     namespace |-> b.Context.namespace]

\* datastore.Key.Incomplete
NativeIncomplete(nk) == nk.name = "" /\ nk.id = 0

RECURSIVE BuildNative(_, _, _)
BuildNative(b, toks, nativeKey) ==
    IF toks = <<>> THEN nativeKey
    ELSE BuildNative(b, Tail(toks),
             <<NewKey(b, Head(toks).Kind, Head(toks).StringID,
                      Head(toks).IntID, nativeKey)>>)

gaeKeysToNative(b, keys) ==
    [i \in 1..Len(keys) |-> BuildNative(b, KeySplit(keys[i])[3], <<>>)]

\* The loop of lines 430-436: leaf first, then each parent.
RECURSIVE CollectToks(_)
CollectToks(cur) ==
    LET tok == [Kind |-> cur.kind, IntID |-> cur.id, StringID |-> cur.name]
    IN  IF cur.parent = <<>> THEN <<tok>>
        ELSE <<tok>> \o CollectToks(cur.parent[1])

\* The in-place reversal of lines 439-442 (i is the Go index, from 0).
RECURSIVE ReverseToks(_, _)
ReverseToks(toks, i) ==
    IF i >= Len(toks) \div 2 THEN toks
    ELSE LET ri == Len(toks) - i - 1
         IN  ReverseToks([toks EXCEPT ![i + 1] = toks[ri + 1],
                                      ![ri + 1] = toks[i + 1]], i + 1)

nativeKeysToGAE(b, nativeKeys) ==
    [i \in 1..Len(nativeKeys) |->
        NewKeyToks(b.appID, nativeKeys[i][1].namespace,
                   ReverseToks(CollectToks(nativeKeys[i][1]), 0))]

\* ------------------------------------------------------------ properties
IndexSettings == {"ShouldIndex", "NoIndex"}

\* A Go value held in an interface{}: its dynamic type t and a payload.
\* loc is the location of a time.Time; key is the pointer of a key value.
GoVal(t, n, loc, key) == [t |-> t, n |-> n, loc |-> loc, key |-> key]

GoNil == GoVal("nil", 0, "", <<>>)

\* The property type ds.Property.SetValue gives a value of each Go type.
PropTypeOf(t) ==
    CASE t = "nil" -> "PTNull"
      [] t = "int64" -> "PTInt"
      [] t = "time.Time" -> "PTTime"
      [] t = "bool" -> "PTBool"
      [] t = "[]byte" -> "PTBytes"
      [] t = "string" -> "PTString"
      [] t = "float64" -> "PTFloat"
      [] t = "*ds.Key" -> "PTKey"
      [] t = "ds.GeoPoint" -> "PTGeoPoint"
      [] t = "blobstore.Key" -> "PTBlobKey"
      [] OTHER -> "PTUnknown"

\* time.Time.UTC
UTC(v) == IF v.t = "time.Time" THEN [v EXCEPT !.loc = "UTC"] ELSE v

\* ds.Property.SetValue: the type follows the value, a timestamp is kept in UTC.
PropertySetValue(nv, indexSetting) ==
    [value |-> UTC(nv), indexSetting |-> indexSetting, propType |-> PropTypeOf(nv.t)]

\* A ds.Property as a caller holds it (MkProperty/MkPropertyNI).
MkProperty(v, indexSetting) ==
    [value |-> v, indexSetting |-> indexSetting, propType |-> PropTypeOf(v.t)]

\* The zero ds.Property of make([]ds.Property, n).
ZeroProperty == [value |-> GoNil, indexSetting |-> "ShouldIndex", propType |-> "PTNull"]

PropKeys ==
    {NewKeyToks("app", "", <<[Kind |-> "P", StringID |-> "", IntID |-> 1]>>),
     NewKeyToks("other", "ns", <<[Kind |-> "P", StringID |-> "s", IntID |-> 0],
                                 [Kind |-> "C", StringID |-> "", IntID |-> 1]>>)}

PropValues ==
    {GoNil}
    \cup {GoVal("int64", n, "", <<>>) : n \in 0..1}
    \cup {GoVal("time.Time", 0, l, <<>>) : l \in {"UTC", "Local"}}
    \cup {GoVal(t, 0, "", <<>>) :
            t \in {"bool", "[]byte", "string", "float64", "ds.GeoPoint", "blobstore.Key"}}
    \cup {GoVal("*ds.Key", 0, "", <<k>>) : k \in PropKeys}

Properties == {MkProperty(v, is) : v \in PropValues, is \in IndexSettings}

Min(S) == CHOOSE x \in S : \A y \in S : x <= y

\* ---------------------------------------------------------- property codec
EncodableTypes ==
    {"PTNull", "PTInt", "PTTime", "PTBool", "PTBytes", "PTString", "PTFloat", "PTKey"}

\* The value switch of lines 341-352 for one property.
NativeValueOf(b, prop) ==
    IF prop.propType = "PTKey"
    THEN GoVal("*datastore.Key", 0, "", gaeKeysToNative(b, <<prop.value.key[1]>>)[1])
    ELSE prop.value

\* A native datastore.Property. Value is an interface{}: isList says that it
\* holds an []interface{} (vals), otherwise vals is the one scalar held.
ZeroNativeProp(name) ==
    [Name |-> name, Value |-> [isList |-> FALSE, vals |-> <<GoNil>>], NoIndex |-> FALSE]

gaePropertyToNative(b, name, props) ==
    LET bad == {i \in 1..Len(props) : props[i].propType \notin EncodableTypes}
        nativeValues == [i \in 1..Len(props) |-> NativeValueOf(b, props[i])]
    IN  IF bad # {}
        THEN [nativeProp |-> ZeroNativeProp(name),
              err |-> "unsupported property type", errAt |-> Min(bad) - 1]
        ELSE IF Len(nativeValues) = 1
        THEN [nativeProp |->
                 [Name |-> name,
                  Value |-> [isList |-> FALSE, vals |-> <<nativeValues[1]>>],
                  NoIndex |-> (props[1].indexSetting # "ShouldIndex")],
              err |-> NoErr, errAt |-> 0]
        ELSE [nativeProp |->
                 [Name |-> name,
                  Value |-> [isList |-> TRUE, vals |-> nativeValues],
                  NoIndex |-> FALSE],
              err |-> NoErr, errAt |-> 0]

DecodableTypes ==
    {"int64", "bool", "string", "float64", "[]byte", "time.Time", "*datastore.Key"}

\* The type switch of lines 385-399 for one native value.
GAEValueOf(b, nv) ==
    CASE nv.t = "time.Time" -> UTC(nv)
      [] nv.t = "*datastore.Key" ->
            GoVal("*ds.Key", 0, "", <<nativeKeysToGAE(b, <<nv.key>>)[1]>>)
      [] OTHER -> nv

nativePropertyToGAE(b, nativeProp) ==
    LET nativeValues == IF nativeProp.Value.isList THEN nativeProp.Value.vals
                        ELSE <<nativeProp.Value.vals[1]>>
        bad == {i \in 1..Len(nativeValues) : nativeValues[i].t \notin DecodableTypes}
        stop == IF bad = {} THEN Len(nativeValues) + 1 ELSE Min(bad)
        indexSetting == IF nativeProp.NoIndex THEN "NoIndex" ELSE "ShouldIndex"
        props == [i \in 1..Len(nativeValues) |->
                    IF i < stop
                    THEN PropertySetValue(GAEValueOf(b, nativeValues[i]), indexSetting)
                    ELSE ZeroProperty]
    IN  IF Len(nativeValues) = 0
        THEN [name |-> nativeProp.Name, props |-> <<>>, err |-> NoErr, errAt |-> 0]
        ELSE IF bad # {}
        THEN [name |-> nativeProp.Name, props |-> props,
              err |-> "unsupported datastore.Value type", errAt |-> Min(bad) - 1]
        ELSE [name |-> nativeProp.Name, props |-> props, err |-> NoErr, errAt |-> 0]

\* ------------------------------------------------------------------ state
\* The context of a request that is in no transaction.
RootContexts == [appID : Apps, namespace : Namespaces, tx : {<<>>}]

InitBds == bds \in {use(c, wantTxn) : c \in RootContexts, wantTxn \in BOOLEAN}

\* No RunInTransaction is running or has returned; no handle was opened.
TxnIdle == [stack |-> <<>>, last |-> <<>>, nextTx |-> 0]

\* No batch operation was called.
BatchIdle ==
    [op |-> "none", keys |-> <<>>, cbFailAt |-> 0, present |-> {}, nextID |-> 0,
     allocCalls |-> <<>>, backendCalls |-> <<>>, log |-> <<>>, ret |-> "none"]

\* Run was not called.
RunIdle ==
    [pc |-> "idle", fq |-> [kind |-> "", keysOnly |-> FALSE, limit |-> <<>>],
     matching |-> 0, it |-> [nq |-> <<>>, n |-> 0, pos |-> 0],
     yielded |-> 0, stopAt |-> 0, log |-> <<>>, count |-> 0, ret |-> "none"]

NoEncoded == [nativeProp |-> ZeroNativeProp(""), err |-> NoErr, errAt |-> 0]
NoDecoded == [name |-> "", props |-> <<>>, err |-> NoErr, errAt |-> 0]

CodecIdle ==
    [op |-> "none", keys |-> <<>>, nativeKeys |-> <<>>, outKeys |-> <<>>,
     props |-> <<>>, encoded |-> NoEncoded, decoded |-> NoDecoded]

InitCodec ==
    /\ InitBds
    /\ codec = CodecIdle
    /\ txn = TxnIdle
    /\ batch = BatchIdle
    /\ run = RunIdle

EncodeKey ==
    \E k \in DSKeys :
        /\ codec.op = "none"
        /\ codec' = [CodecIdle EXCEPT !.op = "encodeKey", !.keys = <<k>>,
                                      !.nativeKeys = gaeKeysToNative(bds, <<k>>)]
        /\ UNCHANGED <<bds, txn, batch, run>>

DecodeKey ==
    /\ codec.op = "encodeKey"
    /\ codec' = [codec EXCEPT !.op = "decodeKey",
                              !.outKeys = nativeKeysToGAE(bds, codec.nativeKeys)]
    /\ UNCHANGED <<bds, txn, batch, run>>

\* Save (lines 475-494) encodes the list held under one property name.
EncodeProperty ==
    \E p \in SeqsUpTo(Properties, MaxProps) :
        /\ codec.op = "none"
        /\ codec' = [CodecIdle EXCEPT !.op = "encodeProperty", !.props = p,
                                      !.encoded = gaePropertyToNative(bds, "f", p)]
        /\ UNCHANGED <<bds, txn, batch, run>>

\* Load (lines 459-473) decodes a native property; here the one just encoded.
DecodeProperty ==
    /\ codec.op = "encodeProperty"
    /\ codec.encoded.err = NoErr
    /\ codec' = [codec EXCEPT !.op = "decodeProperty",
                              !.decoded = nativePropertyToGAE(bds, codec.encoded.nativeProp)]
    /\ UNCHANGED <<bds, txn, batch, run>>

NextCodec == EncodeKey \/ DecodeKey \/ EncodeProperty \/ DecodeProperty

SpecCodec == InitCodec /\ [][NextCodec]_vars

\* ------------------------------------------------------------ transactions
\* attempts := 3 (line 83)
DefaultAttempts == 3

TransactionOptions == [XG : BOOLEAN, Attempts : -1..MaxOptAttempts]

\* opts *ds.TransactionOptions
OptsPointers == {<<>>} \cup {<<o>> : o \in TransactionOptions}

ErrNested == "nested transactions are not supported"
ErrXG == "cross-group transactions are not supported"
ErrConcurrentTransaction == "ds.ErrConcurrentTransaction"

\* What the caller's function may return.
FnErrors ==
    {NoErr, "errFn", "ds.ErrConcurrentTransaction",
     "datastore.ErrConcurrentTransaction", "datastore.ErrNoSuchEntity"}

\* What the backend's commit may return.
CommitErrors == {NoErr, "datastore.ErrConcurrentTransaction", "errBackend"}

\* No datastore operation was made.
NoOp == [attempt |-> 0, wantTxn |-> FALSE, tx |-> <<>>]

\* One activation of RunInTransaction. b is the receiver, i the loop
\* counter, tx the handle of the running attempt, called whether the running
\* function has made its call of RunInTransaction, nested what that call
\* returned. started, fnRuns, backendConflicts, endAt and endRaw record what
\* happened: backend attempts started, runs of the caller's function,
\* attempts the backend ended with a conflict at commit, and the number and
\* raw result of the first attempt that did not end in a conflict. handles
\* are the handles the backend opened, one per attempt, and lastOp is the
\* last datastore operation the function made: the attempt it was made in,
\* whether through the transactional adapter, and the handle it used. Of the function's PutMulti in
\* its transaction: putKeys are the keys it puts, putAttempts the attempts in
\* which it did, allocAttempts the attempts in which the backend was asked
\* for identifiers, allocFailed how often it refused, ids what it allocated.
NewFrame(b, opts) ==
    [b |-> b, opts |-> opts, pc |-> "entry", attempts |-> 0, i |-> 0,
     tx |-> <<>>, called |-> FALSE, nested |-> "none",
     started |-> 0, fnRuns |-> 0, backendConflicts |-> 0,
     endAt |-> 0, endRaw |-> NoErr, ret |-> "none",
     handles |-> <<>>, lastOp |-> NoOp,
     putKeys |-> <<>>, putAttempts |-> <<>>, allocAttempts |-> <<>>,
     allocFailed |-> 0, ids |-> <<>>]

\* RunInTransactionEntry without the check of line 71.
RunInTransactionEntry_NoNestedCheck(f) ==
    IF f.opts # <<>> /\ f.opts[1].XG
    THEN [f EXCEPT !.pc = "ret", !.ret = ErrXG]
    ELSE [f EXCEPT !.pc = "loop",
                   !.attempts = IF f.opts # <<>> /\ f.opts[1].Attempts > 0
                                THEN f.opts[1].Attempts
                                ELSE DefaultAttempts]

\* RunInTransactionEntry without the check of lines 76-81.
RunInTransactionEntry_NoXGCheck(f) ==
    IF f.b.transaction # <<>>
    THEN [f EXCEPT !.pc = "ret", !.ret = ErrNested]
    ELSE [f EXCEPT !.pc = "loop",
                   !.attempts = IF f.opts # <<>> /\ f.opts[1].Attempts > 0
                                THEN f.opts[1].Attempts
                                ELSE DefaultAttempts]

\* RunInTransactionEntry taking every attempts option that is not negative.
RunInTransactionEntry_TakesZero(f) ==
    IF f.b.transaction # <<>>
    THEN [f EXCEPT !.pc = "ret", !.ret = ErrNested]
    ELSE IF f.opts # <<>> /\ f.opts[1].XG
    THEN [f EXCEPT !.pc = "ret", !.ret = ErrXG]
    ELSE [f EXCEPT !.pc = "loop",
                   !.attempts = IF f.opts # <<>> /\ f.opts[1].Attempts >= 0
                                THEN f.opts[1].Attempts
                                ELSE DefaultAttempts]

\* Lines 71-86: the checks before the loop.
RunInTransactionEntry(f) ==
    IF f.b.transaction # <<>>
    THEN [f EXCEPT !.pc = "ret", !.ret = ErrNested]
    ELSE IF f.opts # <<>> /\ f.opts[1].XG
    THEN [f EXCEPT !.pc = "ret", !.ret = ErrXG]
    ELSE [f EXCEPT !.pc = "loop",
                   !.attempts = IF f.opts # <<>> /\ f.opts[1].Attempts > 0
                                THEN f.opts[1].Attempts
                                ELSE DefaultAttempts]

\* LoopContinues with <= for <.
LoopContinues_OneMore(f) == f.i <= f.attempts

\* Line 87: the loop condition.
LoopContinues(f) == f.i < f.attempts

\* ShouldRetry retrying on every error.
ShouldRetry_AnyError(err) == err # NoErr

\* ShouldRetry going on after an attempt without an error as well.
ShouldRetry_AlsoSuccess(err) ==
    normalizeError(err) = ErrConcurrentTransaction \/ err = NoErr

\* Line 91: the only error that is retried.
ShouldRetry(err) == normalizeError(err) = ErrConcurrentTransaction

Top == txn.stack[Len(txn.stack)]

SetTop(f) == [txn.stack EXCEPT ![Len(txn.stack)] = f]

\* The stack once the activation on top has returned err to its caller.
Popped(err) ==
    LET rest == SubSeq(txn.stack, 1, Len(txn.stack) - 1)
    IN  IF rest = <<>> THEN rest
        ELSE [rest EXCEPT ![Len(rest)].nested = err]

\* A call of b.RunInTransaction(fn, opts) made while stack is the stack of
\* running activations.
Call(stack, b, opts) ==
    LET f == RunInTransactionEntry(NewFrame(b, opts))
    IN  IF f.pc = "ret"
        THEN txn' = [txn EXCEPT
                        !.last = <<f>>,
                        !.stack = IF stack = <<>> THEN stack
                                  ELSE [stack EXCEPT ![Len(stack)].nested = f.ret]]
        ELSE txn' = [txn EXCEPT !.stack = Append(stack, f)]

\* The request calls RunInTransaction on its adapter.
RunInTransaction ==
    /\ txn.stack = <<>>
    /\ txn.last = <<>>
    /\ \E opts \in OptsPointers : Call(txn.stack, bds, opts)
    /\ UNCHANGED <<bds, codec, batch, run>>

\* The running function calls RunInTransaction on the transactional adapter
\* the factory gives it for its context (line 89 binds the handle into that
\* context, line 39 reads it back).
FnRunInTransaction ==
    /\ txn.stack # <<>>
    /\ Top.pc = "fn"
    /\ ~Top.called
    /\ \E opts \in OptsPointers :
          Call(SetTop([Top EXCEPT !.called = TRUE]),
               use(withDatastoreTransaction(Top.b.Context, Top.tx), TRUE),
               opts)
    /\ UNCHANGED <<bds, codec, batch, run>>

\* Lines 91-93 for the attempt of f that ended with err.
AttemptEnds(f, err) ==
    IF ShouldRetry(err)
    THEN txn' = [txn EXCEPT !.stack = SetTop([f EXCEPT !.pc = "loop", !.i = f.i + 1,
                                                       !.tx = <<>>])]
    ELSE txn' = [txn EXCEPT
                    !.last = <<[f EXCEPT !.pc = "ret", !.ret = normalizeError(err)]>>,
                    !.stack = Popped(normalizeError(err))]

\* What is recorded of an attempt that ended with err.
Recorded(f, err) ==
    IF f.endAt = 0 /\ normalizeError(err) # ErrConcurrentTransaction
    THEN [f EXCEPT !.endAt = f.started, !.endRaw = err]
    ELSE f

\* Line 88: the backend opens a transaction and runs the function with its
\* handle, or fails to open one.
StartAttempt ==
    /\ txn.stack # <<>>
    /\ Top.pc = "loop"
    /\ LoopContinues(Top)
    /\ \/ txn' = [txn EXCEPT
                     !.nextTx = txn.nextTx + 1,
                     !.stack = SetTop([Top EXCEPT !.pc = "fn",
                                                  !.tx = <<txn.nextTx + 1>>,
                                                  !.called = FALSE,
                                                  !.nested = "none",
                                                  !.started = Top.started + 1,
                                                  !.fnRuns = Top.fnRuns + 1,
                                                  !.handles = Append(Top.handles,
                                                                     txn.nextTx + 1)])]
       \/ AttemptEnds(Recorded([Top EXCEPT !.started = Top.started + 1], "errBackend"),
                      "errBackend")
    /\ UNCHANGED <<bds, codec, batch, run>>

\* Line 95: the attempts are used up.
LoopExit ==
    /\ txn.stack # <<>>
    /\ Top.pc = "loop"
    /\ ~LoopContinues(Top)
    /\ txn' = [txn EXCEPT
                  !.last = <<[Top EXCEPT !.pc = "ret", !.ret = ErrConcurrentTransaction]>>,
                  !.stack = Popped(ErrConcurrentTransaction)]
    /\ UNCHANGED <<bds, codec, batch, run>>

\* The function returns: with an error the backend rolls back and returns
\* it, without one the backend goes on to commit.
FnReturn ==
    /\ txn.stack # <<>>
    /\ Top.pc = "fn"
    /\ \E e \in FnErrors :
          IF e = NoErr
          THEN txn' = [txn EXCEPT !.stack = SetTop([Top EXCEPT !.pc = "commit"])]
          ELSE AttemptEnds(Recorded(Top, e), e)
    /\ UNCHANGED <<bds, codec, batch, run>>

\* The backend commits and returns its result.
Commit ==
    /\ txn.stack # <<>>
    /\ Top.pc = "commit"
    /\ \E e \in CommitErrors :
          AttemptEnds(
              Recorded([Top EXCEPT !.backendConflicts =
                            IF e = "datastore.ErrConcurrentTransaction"
                            THEN Top.backendConflicts + 1
                            ELSE Top.backendConflicts], e),
              e)
    /\ UNCHANGED <<bds, codec, batch, run>>

InitTxn ==
    /\ InitBds
    /\ codec = CodecIdle
    /\ txn = TxnIdle
    /\ batch = BatchIdle
    /\ run = RunIdle

NextTxn ==
    RunInTransaction \/ FnRunInTransaction \/ StartAttempt \/ LoopExit
        \/ FnReturn \/ Commit

SpecTxn == InitTxn /\ [][NextTxn]_vars

\* -------------------------------------------------------- batch operations
\* An error value of the backend: nil, a plain error, or a MultiError that
\* holds one error (or nil) for each index.
BackendOK == [kind |-> "nil", err |-> NoErr, errs |-> <<>>]
SingleError(e) == [kind |-> "error", err |-> e, errs |-> <<>>]
MultiError(errs) == [kind |-> "datastore.MultiError", err |-> "MultiError", errs |-> errs]

\* errors.Fix (line 149): a datastore.MultiError becomes an errors.MultiError.
Fix(err) ==
    IF err.kind = "datastore.MultiError"
    THEN [err EXCEPT !.kind = "errors.MultiError"]
    ELSE err

\* A callback as idxCallbacker sees it: what it returns when it is called
\* for Go index idx, without an error (onNil) and with one (onErr).
ApplyCb(cb, idx, err) ==
    IF err = NoErr THEN cb.onNil[idx + 1] ELSE cb.onErr[idx + 1]

\* CallbackLoop going on after cb has returned an error.
CallbackLoop_KeepsGoing(errs, cb) ==
    LET bad == {i \in 1..Len(errs) : ApplyCb(cb, i - 1, errs[i]) # NoErr}
    IN  [calls |-> [i \in 1..Len(errs) |-> [idx |-> i - 1, err |-> errs[i]]],
         ret |-> IF bad = {} THEN NoErr ELSE ApplyCb(cb, Min(bad) - 1, errs[Min(bad)])]

\* The loops of lines 141-145 and 151-155 over the errors errs: the calls
\* made, up to the first one for which cb returns an error, and that error.
CallbackLoop(errs, cb) ==
    LET bad == {i \in 1..Len(errs) : ApplyCb(cb, i - 1, errs[i]) # NoErr}
        last == IF bad = {} THEN Len(errs) ELSE Min(bad)
    IN  [calls |-> [i \in 1..last |-> [idx |-> i - 1, err |-> errs[i]]],
         ret |-> IF bad = {} THEN NoErr ELSE ApplyCb(cb, last - 1, errs[last])]

\* idxCallbacker calling back once for every index.
idxCallbacker_EveryIndex(err, amt, cb) ==
    IF err.kind = "nil"
    THEN CallbackLoop([i \in 1..amt |-> NoErr], cb)
    ELSE IF Fix(err).kind = "errors.MultiError"
    THEN CallbackLoop([i \in 1..Len(err.errs) |-> normalizeError(err.errs[i])], cb)
    ELSE CallbackLoop([i \in 1..amt |-> normalizeError(err.err)], cb)

\* idxCallbacker passing on the backend's errors as they are.
idxCallbacker_NotNormalized(err, amt, cb) ==
    IF err.kind = "nil"
    THEN CallbackLoop([i \in 1..amt |-> NoErr], cb)
    ELSE IF Fix(err).kind = "errors.MultiError"
    THEN CallbackLoop([i \in 1..Len(err.errs) |-> err.errs[i]], cb)
    ELSE [calls |-> <<>>, ret |-> normalizeError(err.err)]

\* idxCallbacker stopping one index short when the backend succeeded.
idxCallbacker_OneShort(err, amt, cb) ==
    IF err.kind = "nil"
    THEN CallbackLoop([i \in 1..(amt - 1) |-> NoErr], cb)
    ELSE IF Fix(err).kind = "errors.MultiError"
    THEN CallbackLoop([i \in 1..Len(err.errs) |-> normalizeError(err.errs[i])], cb)
    ELSE [calls |-> <<>>, ret |-> normalizeError(err.err)]

idxCallbacker(err, amt, cb) ==
    IF err.kind = "nil"
    THEN CallbackLoop([i \in 1..amt |-> NoErr], cb)
    ELSE IF Fix(err).kind = "errors.MultiError"
    THEN CallbackLoop([i \in 1..Len(err.errs) |-> normalizeError(err.errs[i])], cb)
    ELSE [calls |-> <<>>, ret |-> normalizeError(err.err)]

\* The caller's callback: it returns an error at its cbFailAt-th call
\* (never when cbFailAt is 0).
UserCb(n, cbFailAt) ==
    LET rets == [i \in 1..n |-> IF i = cbFailAt THEN "errCb" ELSE NoErr]
    IN  [onNil |-> rets, onErr |-> rets]

\* The keys a caller hands to the batch operations of adapter b: keys of
\* b's application and namespace with one token.
BatchKey(b, id) ==
    NewKeyToks(b.appID, b.Context.namespace,
               <<[Kind |-> "P", StringID |-> "", IntID |-> id]>>)

BatchKeySeqs(b, ids) == SeqsUpTo({BatchKey(b, id) : id \in ids}, MaxKeys)

\* What the backend answers to AllocateIDs, PutMulti and DeleteMulti of n
\* keys: success, a plain error, or a MultiError with an error at some index.
BackendResults(n) ==
    {BackendOK, SingleError("errBackend"), SingleError("datastore.ErrInvalidKey")}
    \cup {MultiError(errs) :
            errs \in {e \in [1..n -> {NoErr, "datastore.ErrInvalidKey"}] :
                         \E i \in 1..n : e[i] # NoErr}}

\* mkNPLS (lines 332-334): a loader with a copy of base (a pointer to a map).
mkNPLS(b, base) == [bds |-> b, pmap |-> base]

\* nativePropertyLoadSaver.Load (lines 459-473) for the properties the
\* backend holds of an entity: a map from names to lists.
Load(npls, nativeProps) ==
    LET decoded == [i \in 1..Len(nativeProps) |->
                       nativePropertyToGAE(npls.bds, nativeProps[i])]
        bad == {i \in 1..Len(nativeProps) : decoded[i].err # NoErr}
        names == {nativeProps[i].Name : i \in 1..Len(nativeProps)}
        ListOf(name) ==
            LET idx == {i \in 1..Len(nativeProps) : nativeProps[i].Name = name}
                F[S \in SUBSET idx] ==
                    IF S = {} THEN <<>>
                    ELSE LET m == CHOOSE x \in S : \A y \in S : y <= x
                         IN  F[S \ {m}] \o decoded[m].props
            IN  F[idx]
    IN  IF bad # {}
        THEN [npls |-> npls, err |-> decoded[Min(bad)].err]
        ELSE [npls |-> [npls EXCEPT !.pmap = <<[name \in names |-> ListOf(name)]>>],
              err |-> NoErr]

\* The properties the backend holds of the entity of native key nk.
EntityProps(nk) ==
    <<[Name |-> "id", Value |-> [isList |-> FALSE, vals |-> <<GoVal("int64", nk.id, "", <<>>)>>],
       NoIndex |-> FALSE]>>

\* The backend's GetMulti (lines 171, 174): a plain error, or every key
\* in present loaded into its loader and ErrNoSuchEntity for the others.
BackendGetMulti(nativeKeys, nativePLS, present, fail) ==
    LET loaded == [i \in 1..Len(nativeKeys) |->
                      IF nativeKeys[i] \in present
                      THEN Load(nativePLS[i], EntityProps(nativeKeys[i][1]))
                      ELSE [npls |-> nativePLS[i], err |-> "datastore.ErrNoSuchEntity"]]
    IN  IF fail # NoErr
        THEN [pls |-> nativePLS, err |-> SingleError(fail)]
        ELSE [pls |-> [i \in 1..Len(nativeKeys) |-> loaded[i].npls],
              err |-> IF \A i \in 1..Len(nativeKeys) : loaded[i].err = NoErr
                      THEN BackendOK
                      ELSE MultiError([i \in 1..Len(nativeKeys) |-> loaded[i].err])]

GetMulti ==
    /\ batch.op = "none"
    /\ \E keys \in BatchKeySeqs(bds, 1..MaxIntID),
          fail \in {NoErr, "errBackend", "datastore.ErrInvalidKey"},
          cbFailAt \in 0..MaxKeys :
        LET nativeKeys == gaeKeysToNative(bds, keys)
            nativePLS == [i \in 1..Len(nativeKeys) |-> mkNPLS(bds, <<>>)]
        IN  \E present \in SUBSET {nativeKeys[i] : i \in 1..Len(nativeKeys)} :
            LET got == BackendGetMulti(nativeKeys, nativePLS, present, fail)
                res == idxCallbacker(got.err, Len(nativePLS),
                                     UserCb(Len(nativePLS), cbFailAt))
            IN  /\ cbFailAt <= Len(keys)
                /\ batch' = [batch EXCEPT
                      !.op = "GetMulti", !.keys = keys, !.cbFailAt = cbFailAt,
                      !.present = present,
                      !.backendCalls =
                          <<[fn |-> IF bds.transaction # <<>> THEN "tx.GetMulti"
                                    ELSE "client.GetMulti",
                             keys |-> nativeKeys, err |-> got.err]>>,
                      !.log = [i \in 1..Len(res.calls) |->
                                  [idx |-> res.calls[i].idx, key |-> <<>>,
                                   pmap |-> got.pls[res.calls[i].idx + 1].pmap,
                                   err |-> res.calls[i].err]],
                      !.ret = res.ret]
    /\ UNCHANGED <<bds, codec, txn, run>>

\* The set S of integers as an ascending sequence.
RECURSIVE Ascending(_)
Ascending(S) ==
    IF S = {} THEN <<>>
    ELSE LET m == CHOOSE x \in S : \A y \in S : y <= x
         IN  Append(Ascending(S \ {m}), m)

\* Lines 198-211: incompleteKeyMap, from the position of an incomplete key
\* among the incomplete keys to its Go index in nativeKeys.
IncompleteKeyMap(nativeKeys) ==
    Ascending({i - 1 : i \in {j \in 1..Len(nativeKeys) : NativeIncomplete(nativeKeys[j][1])}})

\* IncompleteKeys finding the first incomplete key only.
IncompleteKeys_OnlyFirst(nativeKeys) ==
    LET incompleteKeyMap == IncompleteKeyMap(nativeKeys)
    IN  [j \in 1..Min({1, Len(incompleteKeyMap)}) |-> nativeKeys[incompleteKeyMap[j] + 1]]

\* Lines 198-211: incompleteKeys.
IncompleteKeys(nativeKeys) ==
    LET incompleteKeyMap == IncompleteKeyMap(nativeKeys)
    IN  [j \in 1..Len(incompleteKeyMap) |-> nativeKeys[incompleteKeyMap[j] + 1]]

\* Substituted putting the j-th allocated key at index j.
Substituted_AtRank(nativeKeys, incompleteKeyMap, idKeys) ==
    [i \in 1..Len(nativeKeys) |->
        IF i <= Len(idKeys) THEN idKeys[i] ELSE nativeKeys[i]]

\* Lines 217-219: nativeKeys[incompleteKeyMap[i]] = idKey for every idKey.
Substituted(nativeKeys, incompleteKeyMap, idKeys) ==
    [i \in 1..Len(nativeKeys) |->
        LET js == {j \in 1..Len(idKeys) : incompleteKeyMap[j] = i - 1}
        IN  IF js = {} THEN nativeKeys[i] ELSE idKeys[CHOOSE j \in js : TRUE]]

\* The key the backend makes of an incomplete key with its n-th new
\* identifier: an identifier no caller's key has.
WithNewID(nativeKey, n) == <<[nativeKey[1] EXCEPT !.id = MaxIntID + n]>>

\* The backend's AllocateIDs (line 213): an error, or one key with a new
\* identifier for each key given, in order.
BackendAllocateIDs(keys, nextID, fail) ==
    IF fail # NoErr
    THEN [keys |-> <<>>, err |-> fail]
    ELSE [keys |-> [j \in 1..Len(keys) |-> WithNewID(keys[j], nextID + j)],
          err |-> NoErr]

\* The backend's client.PutMulti (line 225): on success the keys, with new
\* identifiers for the incomplete ones; no keys with an error.
BackendPutMulti(nativeKeys, nextID, err) ==
    IF err.kind # "nil" THEN <<>>
    ELSE [i \in 1..Len(nativeKeys) |->
            IF NativeIncomplete(nativeKeys[i][1])
            THEN WithNewID(nativeKeys[i], nextID + i)
            ELSE nativeKeys[i]]

\* The callback of lines 228-233 around the caller's: nativeKeys[idx] is
\* read only without an error, and panics out of range.
PutCb(n, nativeKeys, cbFailAt) ==
    [onNil |-> [i \in 1..n |-> IF i <= Len(nativeKeys) THEN UserCb(n, cbFailAt).onNil[i]
                               ELSE "panic"],
     onErr |-> UserCb(n, cbFailAt).onErr]

Max(a, b) == IF a >= b THEN a ELSE b

\* Lines 228-234, once the backend has answered err for nativeKeys.
PutMultiCallbacks(b, nativeKeys, err, cbFailAt) ==
    LET res == idxCallbacker(err, Len(nativeKeys),
                             PutCb(Max(Len(nativeKeys), Len(err.errs)), nativeKeys, cbFailAt))
        made == IF res.ret = "panic"
                THEN SubSeq(res.calls, 1, Len(res.calls) - 1)
                ELSE res.calls
    IN  [log |-> [i \in 1..Len(made) |->
                     [idx |-> made[i].idx,
                      key |-> IF made[i].err = NoErr
                              THEN <<nativeKeysToGAE(b, <<nativeKeys[made[i].idx + 1]>>)[1]>>
                              ELSE <<>>,
                      pmap |-> <<>>,
                      err |-> made[i].err]],
         ret |-> res.ret]

\* PutMultiTransactional going on to write the keys as they are after the
\* allocation has failed.
PutMultiTransactional_WritesAnyway(keys, allocFail, err, cbFailAt) ==
    LET nativeKeys == gaeKeysToNative(bds, keys)
        incompleteKeyMap == IncompleteKeyMap(nativeKeys)
        incompleteKeys == IncompleteKeys(nativeKeys)
        alloc == BackendAllocateIDs(incompleteKeys, batch.nextID, allocFail)
        failed == Len(incompleteKeys) > 0 /\ alloc.err # NoErr
        allocCalls == IF Len(incompleteKeys) > 0
                      THEN <<[keys |-> incompleteKeys, result |-> alloc.keys,
                              err |-> alloc.err]>>
                      ELSE <<>>
        putKeys == IF Len(incompleteKeys) > 0 /\ ~failed
                   THEN Substituted(nativeKeys, incompleteKeyMap, alloc.keys)
                   ELSE nativeKeys
        done == PutMultiCallbacks(bds, putKeys, err, cbFailAt)
    IN  /\ failed \/ allocFail = NoErr
        /\ batch' = [batch EXCEPT
              !.op = "PutMulti", !.keys = keys, !.cbFailAt = cbFailAt,
              !.nextID = IF failed THEN batch.nextID
                         ELSE batch.nextID + Len(incompleteKeys),
              !.allocCalls = allocCalls,
              !.backendCalls = <<[fn |-> "tx.PutMulti", keys |-> putKeys,
                                  err |-> err]>>,
              !.log = done.log,
              !.ret = done.ret]

\* Lines 190-222: PutMulti of an adapter that has a transaction.
PutMultiTransactional(keys, allocFail, err, cbFailAt) ==
    LET nativeKeys == gaeKeysToNative(bds, keys)
        incompleteKeyMap == IncompleteKeyMap(nativeKeys)
        incompleteKeys == IncompleteKeys(nativeKeys)
        alloc == BackendAllocateIDs(incompleteKeys, batch.nextID, allocFail)
        allocCalls == IF Len(incompleteKeys) > 0
                      THEN <<[keys |-> incompleteKeys, result |-> alloc.keys,
                              err |-> alloc.err]>>
                      ELSE <<>>
        putKeys == IF Len(incompleteKeys) > 0
                   THEN Substituted(nativeKeys, incompleteKeyMap, alloc.keys)
                   ELSE nativeKeys
        done == PutMultiCallbacks(bds, putKeys, err, cbFailAt)
    IN  IF Len(incompleteKeys) > 0 /\ alloc.err # NoErr
        THEN batch' = [batch EXCEPT !.op = "PutMulti", !.keys = keys,
                                    !.cbFailAt = cbFailAt,
                                    !.allocCalls = allocCalls,
                                    !.ret = alloc.err]
        ELSE /\ allocFail = NoErr
             /\ batch' = [batch EXCEPT
                   !.op = "PutMulti", !.keys = keys, !.cbFailAt = cbFailAt,
                   !.nextID = batch.nextID + Len(incompleteKeys),
                   !.allocCalls = allocCalls,
                   !.backendCalls = <<[fn |-> "tx.PutMulti", keys |-> putKeys,
                                       err |-> err]>>,
                   !.log = done.log,
                   !.ret = done.ret]

\* Lines 223-226: PutMulti of an adapter that has no transaction.
PutMultiNonTransactional(keys, err, cbFailAt) ==
    LET nativeKeys == gaeKeysToNative(bds, keys)
        newKeys == BackendPutMulti(nativeKeys, batch.nextID, err)
        done == PutMultiCallbacks(bds, newKeys, err, cbFailAt)
    IN  batch' = [batch EXCEPT
            !.op = "PutMulti", !.keys = keys, !.cbFailAt = cbFailAt,
            !.nextID = IF err.kind = "nil" THEN batch.nextID + Len(nativeKeys)
                       ELSE batch.nextID,
            !.backendCalls = <<[fn |-> "client.PutMulti", keys |-> nativeKeys,
                                err |-> err]>>,
            !.log = done.log,
            !.ret = done.ret]

PutMulti ==
    /\ batch.op = "none"
    /\ \E keys \in BatchKeySeqs(bds, 0..MaxIntID), cbFailAt \in 0..MaxKeys,
          allocFail \in {NoErr, "datastore.ErrInvalidKey"} :
        /\ cbFailAt <= Len(keys)
        /\ \E err \in BackendResults(Len(keys)) :
              IF bds.transaction # <<>>
              THEN PutMultiTransactional(keys, allocFail, err, cbFailAt)
              ELSE allocFail = NoErr /\ PutMultiNonTransactional(keys, err, cbFailAt)
    /\ UNCHANGED <<bds, codec, txn, run>>

DeleteMulti ==
    /\ batch.op = "none"
    /\ \E keys \in BatchKeySeqs(bds, 1..MaxIntID), cbFailAt \in 0..MaxKeys :
        /\ cbFailAt <= Len(keys)
        /\ \E err \in BackendResults(Len(keys)) :
            LET nativeKeys == gaeKeysToNative(bds, keys)
                res == idxCallbacker(err, Len(nativeKeys),
                           UserCb(Max(Len(nativeKeys), Len(err.errs)), cbFailAt))
            IN  batch' = [batch EXCEPT
                    !.op = "DeleteMulti", !.keys = keys, !.cbFailAt = cbFailAt,
                    !.backendCalls =
                        <<[fn |-> IF bds.transaction # <<>> THEN "tx.DeleteMulti"
                                  ELSE "client.DeleteMulti",
                           keys |-> nativeKeys, err |-> err]>>,
                    !.log = [i \in 1..Len(res.calls) |->
                                [idx |-> res.calls[i].idx, key |-> <<>>, pmap |-> <<>>,
                                 err |-> res.calls[i].err]],
                    !.ret = res.ret]
    /\ UNCHANGED <<bds, codec, txn, run>>

\* AllocateIDs (lines 57-68): the backend's error, normalized, or one call
\* of the callback for every key the backend returns, whatever the callback
\* returns.
AllocateIDs ==
    /\ batch.op = "none"
    /\ \E keys \in BatchKeySeqs(bds, {0}),
          fail \in {NoErr, "errBackend", "datastore.ErrInvalidKey"} :
        LET nativeKeys == gaeKeysToNative(bds, keys)
            got == BackendAllocateIDs(nativeKeys, batch.nextID, fail)
            outKeys == nativeKeysToGAE(bds, got.keys)
        IN  batch' = [batch EXCEPT
                !.op = "AllocateIDs", !.keys = keys,
                !.nextID = IF got.err = NoErr THEN batch.nextID + Len(nativeKeys)
                           ELSE batch.nextID,
                !.allocCalls = <<[keys |-> nativeKeys, result |-> got.keys,
                                  err |-> got.err]>>,
                !.log = IF got.err # NoErr THEN <<>>
                        ELSE [i \in 1..Len(outKeys) |->
                                 [idx |-> i - 1, key |-> <<outKeys[i]>>,
                                  pmap |-> <<>>, err |-> NoErr]],
                !.ret = IF got.err # NoErr THEN normalizeError(got.err) ELSE NoErr]
    /\ UNCHANGED <<bds, codec, txn, run>>

\* The adapter of a request, in or out of a transaction (handle 1).
InitBatch ==
    /\ bds \in {use(c, wantTxn) :
                  c \in [appID : {"app"}, namespace : {"ns"}, tx : {<<>>, <<1>>}],
                  wantTxn \in BOOLEAN}
    /\ codec = CodecIdle
    /\ txn = TxnIdle
    /\ batch = BatchIdle
    /\ run = RunIdle

NextBatch == GetMulti \/ PutMulti \/ DeleteMulti \/ AllocateIDs

SpecBatch == InitBatch /\ [][NextBatch]_vars

\* ------------------------------------------ operations in a transaction
MaxTxnKeys == 2

\* FnContext binding the handle opened before the one of the attempt.
FnContext_PreviousHandle(f) ==
    withDatastoreTransaction(f.b.Context,
                             IF f.tx # <<>> /\ f.tx[1] > 1 THEN <<f.tx[1] - 1>> ELSE f.tx)

\* Line 89: the context the function runs with in the running attempt of f.
FnContext(f) == withDatastoreTransaction(f.b.Context, f.tx)

\* The function makes a GetMulti, a DeleteMulti or a Run through the adapter
\* the factory gives it for its context, transactional or not: the backend
\* is called on the adapter's handle if it has one (lines 169, 240, 259).
FnOp ==
    /\ txn.stack # <<>>
    /\ Top.pc = "fn"
    /\ \E fn \in {"GetMulti", "DeleteMulti", "Run"}, wantTxn \in BOOLEAN :
          LET b == use(FnContext(Top), wantTxn)
          IN  txn' = [txn EXCEPT !.stack =
                         SetTop([Top EXCEPT !.lastOp =
                                    [attempt |-> Top.started,
                                     wantTxn |-> wantTxn, tx |-> b.transaction]])]
    /\ UNCHANGED <<bds, codec, batch, run>>

\* The keys the function puts: the same in every attempt.
TxnPutKeys(f) ==
    IF f.putKeys # <<>> THEN {f.putKeys[1]}
    ELSE {ks \in SeqsUpTo({BatchKey(f.b, id) : id \in 0..1}, MaxTxnKeys) : ks # <<>>}

\* The identifiers of the keys an allocation call returned.
AllocatedIDs(allocCalls) ==
    IF allocCalls = <<>> THEN <<>>
    ELSE [j \in 1..Len(allocCalls[1].result) |-> allocCalls[1].result[j][1].id]

\* The function makes a PutMulti, once in an attempt, through the
\* transactional adapter of its context.
FnPutMulti ==
    /\ txn.stack # <<>>
    /\ Top.pc = "fn"
    /\ \A n \in 1..Len(Top.putAttempts) : Top.putAttempts[n] # Top.started
    /\ LET b == use(FnContext(Top), TRUE)
       IN  \E keys \in TxnPutKeys(Top),
              allocFail \in {NoErr, "datastore.ErrInvalidKey"},
              err \in {BackendOK, SingleError("errBackend")} :
            /\ IF b.transaction # <<>>
               THEN PutMultiTransactional(keys, allocFail, err, 0)
               ELSE allocFail = NoErr /\ PutMultiNonTransactional(keys, err, 0)
            /\ LET allocCalls == IF b.transaction # <<>> THEN batch'.allocCalls
                                 ELSE <<>>
               IN  txn' = [txn EXCEPT !.stack =
                     SetTop([Top EXCEPT
                        !.lastOp = [attempt |-> Top.started,
                                    wantTxn |-> TRUE, tx |-> b.transaction],
                        !.putKeys = <<keys>>,
                        !.putAttempts = Append(Top.putAttempts, Top.started),
                        !.allocAttempts = IF allocCalls # <<>>
                                          THEN Append(Top.allocAttempts, Top.started)
                                          ELSE Top.allocAttempts,
                        !.allocFailed = IF allocCalls # <<>> /\ allocCalls[1].err # NoErr
                                        THEN Top.allocFailed + 1
                                        ELSE Top.allocFailed,
                        !.ids = Top.ids \o AllocatedIDs(allocCalls)])]
    /\ UNCHANGED <<bds, codec, run>>

\* A request of application "app" in namespace "ns" and in no transaction.
InitTxnOps ==
    /\ bds \in {use(c, wantTxn) :
                  c \in [appID : {"app"}, namespace : {"ns"}, tx : {<<>>}],
                  wantTxn \in BOOLEAN}
    /\ codec = CodecIdle
    /\ txn = TxnIdle
    /\ batch = BatchIdle
    /\ run = RunIdle

\* A call of RunInTransaction with a function that makes datastore
\* operations.
NextTxnOps ==
    RunInTransaction \/ StartAttempt \/ LoopExit \/ FnReturn \/ Commit
        \/ FnOp \/ FnPutMulti

SpecTxnOps == InitTxnOps /\ [][NextTxnOps]_vars

\* ----------------------------------------------------------------- queries
\* A finalized query, as far as Run reads it or hands it to the backend
\* here: its kind, the keys-only flag and the limit, if it has one.
FinalizedQueries ==
    [kind : {"P"}, keysOnly : BOOLEAN, limit : {<<>>} \cup {<<l>> : l \in 0..MaxLimit}]

\* prepareNativeQuery (lines 257-330): kind, transaction, keys-only, limit.
prepareNativeQuery(b, fq) ==
    [kind |-> fq.kind, transaction |-> b.transaction,
     keysOnly |-> fq.keysOnly, limit |-> fq.limit]

\* client.Run (line 104): an iterator over the first limit of the matching
\* entities of the kind.
BackendRun(nq, matching) ==
    [nq |-> <<nq>>,
     n |-> IF nq.limit # <<>> /\ nq.limit[1] < matching THEN nq.limit[1] ELSE matching,
     pos |-> 0]

\* The key of the n-th entity the iterator yields.
ResultKey(b, n) == <<NewKey(b, "P", "", n, <<>>)>>

Run ==
    /\ run.pc = "idle"
    /\ \E fq \in FinalizedQueries, matching \in 0..MaxMatching :
          run' = [run EXCEPT !.pc = "next", !.fq = fq, !.matching = matching,
                             !.it = BackendRun(prepareNativeQuery(bds, fq), matching)]
    /\ UNCHANGED <<bds, codec, txn, batch>>

\* Lines 110-113: the loader of one iteration, nil for a keys-only query.
LoaderFor(b, fq) == IF ~fq.keysOnly THEN <<mkNPLS(b, <<>>)>> ELSE <<>>

\* Lines 114-120 when the iterator has no more results.
RunDone ==
    /\ run.pc = "next"
    /\ run.it.pos = run.it.n
    /\ run' = [run EXCEPT !.pc = "done", !.ret = NoErr]
    /\ UNCHANGED <<bds, codec, txn, batch>>

\* Lines 114-120 when the iterator's Next fails.
RunNextFails ==
    /\ run.pc = "next"
    /\ \E err \in {"errBackend", "datastore.ErrInvalidKey"} :
          run' = [run EXCEPT !.pc = "done", !.ret = normalizeError(err)]
    /\ UNCHANGED <<bds, codec, txn, batch>>

\* Lines 114-127 when the iterator yields a result: Next loads it into the
\* loader, unless the query is keys-only, and the callback gets the key and
\* npls.pmap. Reading pmap through a nil npls panics.
RunResult ==
    /\ run.pc = "next"
    /\ run.it.pos < run.it.n
    /\ LET npls == LoaderFor(bds, run.fq)
           nativeKey == ResultKey(bds, run.it.pos + 1)
           loaded == IF npls # <<>> /\ ~run.it.nq[1].keysOnly
                     THEN <<Load(npls[1], EntityProps(nativeKey[1])).npls>>
                     ELSE npls
           next == [run EXCEPT !.it.pos = run.it.pos + 1,
                               !.yielded = run.yielded + 1]
       IN  IF loaded = <<>>
           THEN run' = [next EXCEPT !.pc = "done", !.ret = "panic"]
           ELSE \E r \in {NoErr, "ds.Stop", "errCb", "datastore.ErrNoSuchEntity"} :
                  LET called == [next EXCEPT !.log =
                                    Append(run.log,
                                           [key |-> nativeKeysToGAE(bds, <<nativeKey>>)[1],
                                            pmap |-> loaded[1].pmap])]
                  IN  run' =
                        IF r = NoErr THEN called
                        ELSE IF r = "ds.Stop"
                        THEN [called EXCEPT !.pc = "done", !.ret = NoErr,
                                            !.stopAt = Len(called.log)]
                        ELSE [called EXCEPT !.pc = "done", !.ret = normalizeError(r)]
    /\ UNCHANGED <<bds, codec, txn, batch>>

\* Count (lines 131-137): the backend's count, or -1 and its error,
\* normalized.
Count ==
    /\ run.pc = "idle"
    /\ \E fq \in FinalizedQueries, matching \in 0..MaxMatching,
          err \in {NoErr, "errBackend", "datastore.ErrNoSuchEntity"} :
          LET v == BackendRun(prepareNativeQuery(bds, fq), matching).n
          IN  run' = [run EXCEPT !.pc = "counted", !.fq = fq, !.matching = matching,
                                 !.count = IF err # NoErr THEN -1 ELSE v,
                                 !.ret = IF err # NoErr THEN normalizeError(err)
                                         ELSE NoErr]
    /\ UNCHANGED <<bds, codec, txn, batch>>

InitRun ==
    /\ bds \in {use(c, wantTxn) :
                  c \in [appID : {"app"}, namespace : Namespaces, tx : {<<>>, <<1>>}],
                  wantTxn \in BOOLEAN}
    /\ codec = CodecIdle
    /\ txn = TxnIdle
    /\ batch = BatchIdle
    /\ run = RunIdle

NextRun == Run \/ RunDone \/ RunNextFails \/ RunResult \/ Count

SpecRun == InitRun /\ [][NextRun]_vars

\* ------------------------------------------------------- batch properties
\* The indices (from 1) of the incomplete keys given to the operation, and
\* the position of index i among them.
IncompleteInputs == {i \in 1..Len(batch.keys) : KeyIncomplete(batch.keys[i])}
RankOf(i) == Cardinality({j \in IncompleteInputs : j <= i})

\* The key k with the identifier id in its leaf token.
WithLeafID(k, id) == [k EXCEPT !.toks[Len(k.toks)].IntID = id]

\* C4: PutMulti in a transaction calls the backend's identifier allocation
\* for exactly the incomplete keys (not at all when there is none), writes
\* each allocated key at the position of the incomplete key it replaces and
\* the complete keys unchanged at theirs, and on success gives the callback
\* one complete key per index in input order.
C4_TxnPutAllocatesIncomplete ==
    (batch.op = "PutMulti" /\ bds.transaction # <<>>)
      => /\ IncompleteInputs = {} => batch.allocCalls = <<>>
         /\ IncompleteInputs # {}
               => /\ Len(batch.allocCalls) = 1
                  /\ batch.allocCalls[1].keys =
                        [j \in 1..Cardinality(IncompleteInputs) |->
                            gaeKeysToNative(bds,
                                <<batch.keys[Ascending(IncompleteInputs)[j]]>>)[1]]
         /\ batch.backendCalls # <<>>
               => /\ Len(batch.backendCalls[1].keys) = Len(batch.keys)
                  /\ \A i \in 1..Len(batch.keys) :
                        IF i \in IncompleteInputs
                        THEN /\ batch.backendCalls[1].keys[i] =
                                    batch.allocCalls[1].result[RankOf(i)]
                             /\ ~NativeIncomplete(batch.backendCalls[1].keys[i][1])
                        ELSE batch.backendCalls[1].keys[i] =
                                    gaeKeysToNative(bds, <<batch.keys[i]>>)[1]
         /\ (/\ batch.backendCalls # <<>>
             /\ batch.backendCalls[1].err.kind = "nil"
             /\ batch.cbFailAt = 0)
               => /\ batch.ret = NoErr
                  /\ Len(batch.log) = Len(batch.keys)
                  /\ \A i \in 1..Len(batch.keys) :
                        /\ batch.log[i].idx = i - 1
                        /\ batch.log[i].err = NoErr
                        /\ batch.log[i].key # <<>>
                        /\ ~KeyIncomplete(batch.log[i].key[1])
                        /\ batch.log[i].key[1] =
                              IF i \in IncompleteInputs
                              THEN WithLeafID(batch.keys[i],
                                       batch.allocCalls[1].result[RankOf(i)][1].id)
                              ELSE batch.keys[i]

C4_Witness ==
    /\ batch.op = "PutMulti" /\ bds.transaction # <<>>
    /\ Len(batch.keys) = 3
    /\ IncompleteInputs = {2, 3}
    /\ batch.ret = NoErr
    /\ Len(batch.log) = 3
    /\ Len(batch.allocCalls) = 1 /\ Len(batch.allocCalls[1].keys) = 2

\* The property map of the entity the backend holds for key k.
EntityMapOf(k) ==
    [n \in {"id"} |->
        <<MkProperty(GoVal("int64", k.toks[Len(k.toks)].IntID, "", <<>>), "ShouldIndex")>>]

\* C5: when the backend's GetMulti reports a per-index error, the callback
\* is called once per key in index order, the i-th call with the outcome of
\* the i-th key: the abstract not-found error if it does not exist, its
\* decoded property map and no error if it does.
C5_GetMultiPerIndexOutcome ==
    (/\ batch.op = "GetMulti"
     /\ batch.backendCalls[1].err.kind = "datastore.MultiError"
     /\ batch.cbFailAt = 0)
      => /\ batch.ret = NoErr
         /\ Len(batch.log) = Len(batch.keys)
         /\ \A i \in 1..Len(batch.keys) :
               /\ batch.log[i].idx = i - 1
               /\ IF gaeKeysToNative(bds, <<batch.keys[i]>>)[1] \in batch.present
                  THEN /\ batch.log[i].err = NoErr
                       /\ batch.log[i].pmap = <<EntityMapOf(batch.keys[i])>>
                  ELSE batch.log[i].err = "ds.ErrNoSuchEntity"

C5_Witness ==
    /\ batch.op = "GetMulti"
    /\ Len(batch.keys) = 3 /\ batch.keys[1] # batch.keys[2]
    /\ Len(batch.log) = 3
    /\ batch.log[1].err = NoErr /\ batch.log[1].pmap # <<>>
    /\ batch.log[2].err = "ds.ErrNoSuchEntity"
    /\ batch.log[3].err = NoErr /\ batch.log[3].pmap # <<>>

\* The backend's batch call failed with a plain (non-aggregate) error.
SingleErrorReported ==
    /\ batch.op \in {"GetMulti", "PutMulti", "DeleteMulti"}
    /\ batch.backendCalls # <<>>
    /\ batch.backendCalls[1].err.kind = "error"

\* C6 as stated: when the backend's batch call fails with a plain error,
\* the callback is called once per index, each time with that error,
\* normalized.
C6_SingleErrorPerIndex ==
    (SingleErrorReported /\ batch.cbFailAt = 0)
      => /\ Len(batch.log) = Len(batch.keys)
         /\ \A i \in 1..Len(batch.log) :
               batch.log[i].err = normalizeError(batch.backendCalls[1].err.err)

\* C6 as amended: when the backend's batch call fails with a plain error,
\* the callback is not called at all and the operation returns that error,
\* normalized.
C6_SingleErrorReturned ==
    SingleErrorReported
      => /\ batch.log = <<>>
         /\ batch.ret = normalizeError(batch.backendCalls[1].err.err)

C6_Witness ==
    /\ batch.op = "DeleteMulti"
    /\ Len(batch.keys) = 2
    /\ batch.backendCalls[1].err = SingleError("datastore.ErrInvalidKey")
    /\ batch.log = <<>>
    /\ batch.ret = "ds.ErrInvalidKey"

\* The backend's PutMulti reported an aggregate error that has no error
\* at some index.
PartialFailure ==
    /\ batch.op = "PutMulti"
    /\ batch.backendCalls # <<>>
    /\ batch.backendCalls[1].err.kind = "datastore.MultiError"
    /\ \E i \in 1..Len(batch.keys) : batch.backendCalls[1].err.errs[i] = NoErr

\* C11: under a partial failure of the backend's PutMulti, in a transaction
\* or not, the callback is called once per index in input order: at an
\* index without an error with the key stored there (the input key, with a
\* new identifier if it was incomplete) and no error, at an index with an
\* error with that error, normalized, and no key.
C11_PutMultiPartialFailure ==
    (PartialFailure /\ batch.cbFailAt = 0)
      => /\ batch.ret = NoErr
         /\ Len(batch.log) = Len(batch.keys)
         /\ \A i \in 1..Len(batch.log) :
               /\ batch.log[i].idx = i - 1
               /\ IF batch.backendCalls[1].err.errs[i] = NoErr
                  THEN /\ batch.log[i].err = NoErr
                       /\ batch.log[i].key # <<>>
                       /\ ~KeyIncomplete(batch.log[i].key[1])
                       /\ \E id \in 1..(MaxIntID + MaxKeys) :
                             batch.log[i].key[1] = WithLeafID(batch.keys[i], id)
                       /\ i \notin IncompleteInputs
                             => batch.log[i].key[1] = batch.keys[i]
                  ELSE /\ batch.log[i].err =
                              normalizeError(batch.backendCalls[1].err.errs[i])
                       /\ batch.log[i].key = <<>>

\* The backend's batch call succeeded.
BackendSucceeded ==
    /\ batch.op \in {"GetMulti", "PutMulti", "DeleteMulti"}
    /\ batch.backendCalls # <<>>
    /\ batch.backendCalls[1].err.kind = "nil"

\* C12: when the backend's batch call of GetMulti, PutMulti or DeleteMulti
\* for N keys succeeds, the callback is called for the indices 0, 1, ... in
\* ascending order, every time without an error, and, the callback
\* returning no error, exactly N times, after which the operation returns
\* no error.
C12_SuccessCallbackPerIndex ==
    BackendSucceeded
      => /\ \A i \in 1..Len(batch.log) :
               batch.log[i].idx = i - 1 /\ batch.log[i].err = NoErr
         /\ batch.cbFailAt = 0
               => Len(batch.log) = Len(batch.keys) /\ batch.ret = NoErr

C12_Witness ==
    /\ BackendSucceeded
    /\ batch.op = "DeleteMulti"
    /\ Len(batch.keys) = 3
    /\ Len(batch.log) = 3
    /\ batch.log[3].idx = 2 /\ batch.log[3].err = NoErr
    /\ batch.ret = NoErr

\* The caller's callback was called for the index at which it returns an
\* error.
CallbackFailed ==
    /\ batch.op \in {"GetMulti", "PutMulti", "DeleteMulti"}
    /\ batch.cbFailAt > 0
    /\ \E n \in 1..Len(batch.log) : batch.log[n].idx = batch.cbFailAt - 1

\* C20: when the callback of GetMulti, PutMulti or DeleteMulti returns an
\* error at an index, that call is the last one, no index after it is
\* called back, and the operation returns the callback's error, whether the
\* backend succeeded or reported an aggregate error.
C20_CallbackErrorStops ==
    CallbackFailed
      => /\ batch.backendCalls[1].err.kind \in {"nil", "datastore.MultiError"}
         /\ Len(batch.log) = batch.cbFailAt
         /\ \A n \in 1..Len(batch.log) : batch.log[n].idx = n - 1
         /\ batch.ret = "errCb"

C20_Witness ==
    /\ CallbackFailed
    /\ batch.op = "GetMulti"
    /\ batch.backendCalls[1].err.kind = "datastore.MultiError"
    /\ Len(batch.keys) = 3 /\ batch.cbFailAt = 2
    /\ Len(batch.log) = 2
    /\ batch.ret = "errCb"

\* The identifier allocation of a PutMulti in a transaction has failed.
AllocationFailed ==
    /\ batch.op = "PutMulti"
    /\ bds.transaction # <<>>
    /\ batch.allocCalls # <<>>
    /\ batch.allocCalls[1].err # NoErr

\* C21: when the identifier allocation of a PutMulti in a transaction
\* fails, the backend's transactional write is not called, the callback is
\* not called, and PutMulti returns the error of the allocation, as the
\* backend gave it.
C21_AllocationFailureEndsPut ==
    AllocationFailed
      => /\ batch.backendCalls = <<>>
         /\ batch.log = <<>>
         /\ batch.ret = batch.allocCalls[1].err

C21_Witness ==
    /\ AllocationFailed
    /\ Len(batch.keys) = 3 /\ IncompleteInputs = {2}
    /\ batch.allocCalls[1].err = "datastore.ErrInvalidKey"
    /\ batch.backendCalls = <<>> /\ batch.log = <<>>
    /\ batch.ret = "datastore.ErrInvalidKey"

\* ------------------------------------------------- transaction properties
\* The call of RunInTransaction that returned last, and the running ones.
LastReturned == {txn.last[n] : n \in DOMAIN txn.last}
Live == {txn.stack[n] : n \in DOMAIN txn.stack}

\* C1: when the backend ends every attempt with a conflict, a call with
\* options attempts = n >= 1 starts exactly n backend attempts, runs the
\* caller's function exactly n times and returns the abstract
\* concurrent-transaction error (after exactly one attempt when n = 1).
C1_RetriesExactlyAttempts ==
    \A f \in LastReturned :
        (/\ f.b.transaction = <<>>
         /\ f.opts # <<>> /\ ~f.opts[1].XG /\ f.opts[1].Attempts >= 1
         /\ f.backendConflicts = f.started)
            => /\ f.started = f.opts[1].Attempts
               /\ f.fnRuns = f.opts[1].Attempts
               /\ f.ret = ErrConcurrentTransaction

C1_Witness ==
    \E f \in LastReturned :
        /\ f.opts # <<>> /\ f.opts[1].Attempts = 2
        /\ f.backendConflicts = 2 /\ f.started = 2 /\ f.fnRuns = 2
        /\ f.ret = ErrConcurrentTransaction

\* C2: RunInTransaction on an adapter that has a transaction handle bound
\* returns a configuration error at once: it starts no backend attempt and
\* never runs the caller's function, and no such call is ever running.
C2_NestedRejected ==
    /\ \A f \in LastReturned :
          f.b.transaction # <<>>
              => f.ret = ErrNested /\ f.started = 0 /\ f.fnRuns = 0
    /\ \A f \in Live : f.b.transaction = <<>>

C2_Witness ==
    /\ txn.stack # <<>>
    /\ Top.pc = "fn"
    /\ Top.nested = ErrNested
    /\ \E f \in LastReturned :
          f.b.transaction = Top.tx /\ f.ret = ErrNested /\ f.started = 0

\* C3: an attempt that ends with an error other than the conflict ends the
\* call: the call returns that error, normalized, and starts no attempt
\* after it, whatever is left of the attempts.
C3_OtherErrorsNotRetried ==
    /\ \A f \in LastReturned :
          (f.endAt > 0 /\ normalizeError(f.endRaw) # NoErr)
              => f.ret = normalizeError(f.endRaw) /\ f.started = f.endAt
    /\ \A f \in Live : ~(f.endAt > 0 /\ normalizeError(f.endRaw) # NoErr)

C3_Witness ==
    \E f \in LastReturned :
        /\ f.attempts = 3
        /\ f.endAt = 2 /\ f.started = 2
        /\ f.endRaw = "datastore.ErrNoSuchEntity"
        /\ f.ret = "ds.ErrNoSuchEntity"

\* The call f was made with the cross-entity-group option set.
WantsXG(f) == f.opts # <<>> /\ f.opts[1].XG

\* C13: a call of RunInTransaction with the XG option set returns a
\* configuration error at once, whatever its attempts option: the
\* cross-group error (the nested-transaction error if the adapter has a
\* transaction); it starts no backend attempt, never runs the caller's
\* function and never enters the retry loop, so no such call is ever
\* running.
C13_XGRejected ==
    /\ \A f \in LastReturned :
          WantsXG(f)
              => /\ f.ret = IF f.b.transaction = <<>> THEN ErrXG ELSE ErrNested
                 /\ f.started = 0 /\ f.fnRuns = 0 /\ f.i = 0
                 /\ f.attempts = 0
    /\ \A f \in Live : ~WantsXG(f)

C13_Witness ==
    \E f \in LastReturned :
        /\ WantsXG(f) /\ f.opts[1].Attempts = 2
        /\ f.b.transaction = <<>>
        /\ f.ret = ErrXG /\ f.started = 0 /\ f.fnRuns = 0

\* The call f was made without options, or with an attempts option that is
\* zero or negative (and without XG).
NoAttemptsGiven(f) ==
    f.opts = <<>> \/ (~f.opts[1].XG /\ f.opts[1].Attempts <= 0)

\* C14: a call of RunInTransaction without options, or with an attempts
\* option of zero or less, has an attempt bound of 3: while it runs it has
\* started at most 3 attempts, and when every attempt ended in a conflict it
\* has started exactly 3 backend attempts, run the caller's function 3 times
\* and returned the abstract concurrent-transaction error.
C14_DefaultThreeAttempts ==
    /\ \A f \in Live :
          NoAttemptsGiven(f) => f.attempts = 3 /\ f.started <= 3
    /\ \A f \in LastReturned :
          (f.b.transaction = <<>> /\ NoAttemptsGiven(f) /\ f.endAt = 0)
              => /\ f.started = 3
                 /\ f.fnRuns = 3
                 /\ f.ret = ErrConcurrentTransaction

C14_Witness ==
    \E f \in LastReturned :
        /\ f.opts # <<>> /\ f.opts[1].Attempts = 0 /\ ~f.opts[1].XG
        /\ f.b.transaction = <<>>
        /\ f.endAt = 0 /\ f.backendConflicts = 3
        /\ f.started = 3 /\ f.fnRuns = 3
        /\ f.ret = ErrConcurrentTransaction

\* C15: in a call of RunInTransaction the attempts are sequential and each
\* has a handle of its own: the backend opens a handle for every run of the
\* function, newer than those of the attempts before it; between attempts
\* every attempt started has ended and no handle is bound, during an attempt
\* it is the only one that has not ended and its handle is the bound one;
\* and an operation the function makes through the transactional adapter of
\* its context uses the handle of the attempt it is made in (one made
\* through the non-transactional adapter uses no handle).
C15_AttemptsSequentialOwnHandle ==
    \A f \in Live \cup LastReturned :
        /\ Len(f.handles) = f.fnRuns
        /\ \A m, n \in 1..Len(f.handles) : m < n => f.handles[m] < f.handles[n]
        /\ f.pc = "loop" => f.started = f.i /\ f.tx = <<>>
        /\ f.pc \in {"fn", "commit"}
              => f.started = f.i + 1 /\ f.tx = <<f.handles[f.started]>>
        /\ f.lastOp # NoOp
              => /\ f.lastOp.attempt \in 1..Len(f.handles)
                 /\ f.lastOp.tx = IF f.lastOp.wantTxn
                                  THEN <<f.handles[f.lastOp.attempt]>>
                                  ELSE <<>>

C15_Witness ==
    \E f \in Live :
        /\ f.pc = "fn" /\ f.started = 3
        /\ f.handles = <<1, 2, 3>>
        /\ f.lastOp = [attempt |-> 3, wantTxn |-> TRUE, tx |-> <<3>>]

\* The number of incomplete keys among the keys the function of f puts.
IncompletePut(f) ==
    Cardinality({i \in 1..Len(f.putKeys[1]) : KeyIncomplete(f.putKeys[1][i])})

\* C16: when the function makes a transactional PutMulti with k incomplete
\* keys, the backend is asked for identifiers in every attempt in which the
\* function makes it (never when k = 0), every call that succeeds consumes
\* k identifiers that no earlier attempt was given, so that n attempts in
\* which the function puts its keys consume n * k identifiers.
C16_AllocationInEveryAttempt ==
    \A f \in Live \cup LastReturned :
        f.putKeys # <<>>
          => /\ f.allocAttempts = IF IncompletePut(f) > 0 THEN f.putAttempts ELSE <<>>
             /\ Len(f.ids) = IncompletePut(f) * (Len(f.allocAttempts) - f.allocFailed)
             /\ \A m, n \in 1..Len(f.ids) : m # n => f.ids[m] # f.ids[n]
             /\ (Len(f.putAttempts) = f.started /\ f.allocFailed = 0)
                   => Len(f.ids) = f.started * IncompletePut(f)

C16_Witness ==
    \E f \in LastReturned :
        /\ f.putKeys # <<>> /\ IncompletePut(f) = 2
        /\ f.started = 3 /\ f.ret = ErrConcurrentTransaction
        /\ f.putAttempts = <<1, 2, 3>> /\ f.allocAttempts = <<1, 2, 3>>
        /\ f.allocFailed = 0
        /\ Len(f.ids) = 6

\* An attempt of f has committed: it ended without an error.
Committed(f) == f.endAt > 0 /\ f.endRaw = NoErr

\* C19: at most one attempt of a call of RunInTransaction commits. No
\* running call has a committed attempt, and a call of which an attempt has
\* committed has returned no error, has started no attempt after that one,
\* and has run the function once for each conflict before it and once more.
C19_AtMostOneCommit ==
    /\ \A f \in Live : ~Committed(f)
    /\ \A f \in LastReturned :
          Committed(f)
              => /\ f.ret = NoErr
                 /\ f.started = f.endAt
                 /\ f.i = f.endAt - 1
                 /\ f.fnRuns = f.i + 1

C19_Witness ==
    \E f \in LastReturned :
        /\ Committed(f) /\ f.endAt = 3
        /\ f.backendConflicts = 2
        /\ f.started = 3 /\ f.fnRuns = 3
        /\ f.ret = NoErr

\* --------------------------------------------------------- query properties
\* C7: Run calls the callback once for every result the iterator yields, in
\* iterator order, and returns no error when the iterator is exhausted, so
\* that a limit of L over M matching entities gives min(L, M) calls; when
\* the callback returns the stop signal at its k-th call, Run returns no
\* error and the callback has been called k times.
C7_RunCallbackPerResult ==
    /\ run.pc \in {"next", "done"}
          => /\ Len(run.log) = run.yielded
             /\ \A n \in 1..Len(run.log) :
                   run.log[n].key.toks[1].IntID = n
    /\ (run.pc = "done" /\ run.it.pos = run.it.n /\ run.stopAt = 0
        /\ run.ret \in {NoErr, "panic"})
          => /\ run.ret = NoErr
             /\ Len(run.log) = IF run.fq.limit # <<>> /\ run.fq.limit[1] < run.matching
                               THEN run.fq.limit[1] ELSE run.matching
    /\ run.stopAt > 0
          => run.pc = "done" /\ run.ret = NoErr /\ Len(run.log) = run.stopAt

\* C18: Run over a keys-only query does not crash for want of a loader: it
\* calls the callback for every result the iterator yields, with the key of
\* that result and no property map.
C18_KeysOnlyRunDelivers ==
    (run.pc \in {"next", "done"} /\ run.fq.keysOnly)
      => /\ run.ret # "panic"
         /\ Len(run.log) = run.yielded
         /\ \A n \in 1..Len(run.log) :
               /\ run.log[n].key = nativeKeysToGAE(bds, <<ResultKey(bds, n)>>)[1]
               /\ run.log[n].pmap = <<>>

\* ---------------------------------------------------------- error properties
\* The backend's sentinels and the errors of the model.
BackendSentinels ==
    {"datastore.ErrNoSuchEntity", "datastore.ErrConcurrentTransaction",
     "datastore.ErrInvalidKey"}

ErrorValues ==
    BackendSentinels
      \cup {NoErr, "errBackend", "errFn", "errCb", "ds.Stop", ErrNested, ErrXG,
            "ds.ErrNoSuchEntity", "ds.ErrConcurrentTransaction", "ds.ErrInvalidKey"}

\* C17: normalizeError maps the three sentinels of the backend to the
\* abstract ones and every other error, no error included, to itself; it is
\* idempotent; and no error that an operation returns or gives to a callback
\* is one the normalizer would still change.
C17_ErrorsNormalized ==
    /\ normalizeError("datastore.ErrNoSuchEntity") = "ds.ErrNoSuchEntity"
    /\ normalizeError("datastore.ErrConcurrentTransaction") = "ds.ErrConcurrentTransaction"
    /\ normalizeError("datastore.ErrInvalidKey") = "ds.ErrInvalidKey"
    /\ \A e \in ErrorValues \ BackendSentinels : normalizeError(e) = e
    /\ \A e \in ErrorValues : normalizeError(normalizeError(e)) = normalizeError(e)
    /\ batch.ret \notin {"none", "panic"} => normalizeError(batch.ret) = batch.ret
    /\ \A i \in 1..Len(batch.log) : normalizeError(batch.log[i].err) = batch.log[i].err
    /\ run.ret \notin {"none", "panic"} => normalizeError(run.ret) = run.ret
    /\ \A f \in LastReturned : normalizeError(f.ret) = f.ret

\* ------------------------------------------------------- codec properties
\* The list a caller compares a decoded list with: timestamps in UTC.
UTCNormalized(props) ==
    [i \in 1..Len(props) |-> [props[i] EXCEPT !.value = UTC(props[i].value)]]

\* C8: decoding the native key produced by encoding a complete key k yields
\* a key equal to k: same application id, same namespace, same tokens in
\* root-to-leaf order.
C8_KeyRoundTrip ==
    (codec.op = "decodeKey" /\ ~KeyIncomplete(codec.keys[1]))
        => codec.outKeys[1] = codec.keys[1]

\* C9: decoding the native property produced by encoding a list of one or
\* more values of the supported types yields an equal list: same length,
\* values, order and index settings, timestamps compared in UTC.
C9_PropertyRoundTrip ==
    (codec.op = "decodeProperty" /\ Len(codec.props) >= 1)
        => /\ codec.decoded.err = NoErr
           /\ codec.decoded.props = UTCNormalized(codec.props)

\* C10: a list of more than one value is encoded as an indexed native list
\* whatever its values' index settings and decodes with every value marked
\* should-index; a single value keeps its index setting through encode and
\* decode.
C10_ListAlwaysIndexed ==
    /\ (codec.op \in {"encodeProperty", "decodeProperty"}
        /\ codec.encoded.err = NoErr /\ Len(codec.props) > 1)
          => /\ codec.encoded.nativeProp.Value.isList
             /\ ~codec.encoded.nativeProp.NoIndex
    /\ (codec.op = "decodeProperty" /\ Len(codec.props) > 1)
          => /\ codec.decoded.err = NoErr
             /\ Len(codec.decoded.props) = Len(codec.props)
             /\ \A i \in 1..Len(codec.decoded.props) :
                    codec.decoded.props[i].indexSetting = "ShouldIndex"
    /\ (codec.op = "decodeProperty" /\ Len(codec.props) = 1)
          => /\ codec.decoded.err = NoErr
             /\ Len(codec.decoded.props) = 1
             /\ codec.decoded.props[1].indexSetting = codec.props[1].indexSetting

====
